---- MODULE Spec2Model ----
(***************************************************************************)
(* The two redaction programs of the repository: main.py (process_file and *)
(* its batch loop) and redactor.py (censor_file and its batch loop).       *)
(* A text is a sequence of one-character strings; offsets are 0-based and  *)
(* half-open, as in the source.                                            *)
(***************************************************************************)
EXTENDS Integers, Sequences, FiniteSets, TLC

\* ------------------------------------------------------------------ bounds
MaxLen == 4
MaxFiles == 3

\* -------------------------------------------------------------- characters
CensorChar == "█"
Digits == {"0", "1", "2", "3", "4", "5", "6", "7", "8", "9"}
Whitespace == {" ", "\t", "\n"}
Separators == Whitespace \cup {".", "-"}

\* The characters input documents are drawn from.
Alphabet == {"A", "1", " "}

\* ------------------------------------------------------ Python str methods
\* a censor run of one character whatever the length of the match
BlocksOnce(n) == IF n = 0 THEN <<>> ELSE <<CensorChar>>

\* '█' * n
Blocks(n) == [i \in 1..n |-> CensorChar]

\* str.lower() on the characters of the model
LowerChar(c) == IF c = "A" THEN "a" ELSE c
Lower(s) == [i \in 1..Len(s) |-> LowerChar(s[i])]

\* s startswith old at 1-based position i
OccursAt(s, old, i) ==
    /\ i + Len(old) - 1 <= Len(s)
    /\ \A k \in 1..Len(old) : s[i + k - 1] = old[k]

\* str.replace(old, new): every non-overlapping occurrence, left to right
RECURSIVE ReplaceFrom(_, _, _, _)
ReplaceFrom(s, old, new, i) ==
    IF i > Len(s) THEN <<>>
    ELSE IF Len(old) > 0 /\ OccursAt(s, old, i)
         THEN new \o ReplaceFrom(s, old, new, i + Len(old))
         ELSE <<s[i]>> \o ReplaceFrom(s, old, new, i + 1)

Replace(s, old, new) == ReplaceFrom(s, old, new, 1)

\* str.split(): the maximal runs of non-whitespace characters, as a set;
\* cur is the run being read at position i
RECURSIVE SplitFrom(_, _, _)
SplitFrom(s, i, cur) ==
    IF i > Len(s) THEN (IF cur = <<>> THEN {} ELSE {cur})
    ELSE IF s[i] \in Whitespace
         THEN (IF cur = <<>> THEN {} ELSE {cur}) \cup SplitFrom(s, i + 1, <<>>)
         ELSE SplitFrom(s, i + 1, Append(cur, s[i]))

Split(s) == SplitFrom(s, 1, <<>>)

\* the text of a span [start, end) of a document: Span.text
SpanText(s, sp) == SubSeq(s, sp.start + 1, sp.end)

\* ------------------------------------------------- main.py: phone pattern
\* (\(?\+?[0-9]{1,3}\)?[\s.-]?[0-9]{1,4}[\s.-]?[0-9]{1,4}[\s.-]?[0-9]{1,9})
\* as the sequence of its quantified character classes
phone_pattern ==
    << [cls |-> {"("},     lo |-> 0, hi |-> 1],
       [cls |-> {"+"},     lo |-> 0, hi |-> 1],
       [cls |-> Digits,     lo |-> 1, hi |-> 3],
       [cls |-> {")"},     lo |-> 0, hi |-> 1],
       [cls |-> Separators, lo |-> 0, hi |-> 1],
       [cls |-> Digits,     lo |-> 1, hi |-> 4],
       [cls |-> Separators, lo |-> 0, hi |-> 1],
       [cls |-> Digits,     lo |-> 1, hi |-> 4],
       [cls |-> Separators, lo |-> 0, hi |-> 1],
       [cls |-> Digits,     lo |-> 1, hi |-> 9] >>

\* The backtracking matcher. MatchFrom(s, pos, k) is the position after the
\* match of the components k.. of the pattern at 1-based position pos, and
\* 0 when there is none; TryCount tries component k with n characters and
\* then with fewer, as a greedy quantifier does.
Fits(s, pos, n, cls) ==
    /\ pos + n - 1 <= Len(s)
    /\ \A j \in 0..(n - 1) : s[pos + j] \in cls

RECURSIVE MatchFrom(_, _, _), TryCount(_, _, _, _)
TryCount(s, pos, k, n) ==
    IF n < phone_pattern[k].lo THEN 0
    ELSE IF ~Fits(s, pos, n, phone_pattern[k].cls) THEN TryCount(s, pos, k, n - 1)
    ELSE LET e == MatchFrom(s, pos + n, k + 1)
         IN  IF e # 0 THEN e ELSE TryCount(s, pos, k, n - 1)

MatchFrom(s, pos, k) ==
    IF k > Len(phone_pattern) THEN pos
    ELSE TryCount(s, pos, k, phone_pattern[k].hi)

\* re.sub(phone_pattern, lambda x: '█' * len(x.group()), text)
RECURSIVE PhoneSubFrom(_, _)
PhoneSubFrom(s, i) ==
    IF i > Len(s) THEN <<>>
    ELSE LET e == MatchFrom(s, i, 1)
         IN  IF e # 0 THEN Blocks(e - i) \o PhoneSubFrom(s, e)
             ELSE <<s[i]>> \o PhoneSubFrom(s, i + 1)

\* phone_pattern.findall(text): the matches, left to right, as spans
RECURSIVE PhoneFindallFrom(_, _)
PhoneFindallFrom(s, i) ==
    IF i > Len(s) THEN <<>>
    ELSE LET e == MatchFrom(s, i, 1)
         IN  IF e # 0 THEN <<[start |-> i - 1, end |-> e - 1]>> \o PhoneFindallFrom(s, e)
             ELSE PhoneFindallFrom(s, i + 1)

PhoneSpans(s) == PhoneFindallFrom(s, 1)

\* redact_phone_numbers(text) -> (redacted_text, stats)
redact_phone_numbers(t) ==
    [text  |-> PhoneSubFrom(t, 1),
     stats |-> [i \in 1..Len(PhoneSpans(t)) |->
                  [cat |-> "PHONE", text |-> SpanText(t, PhoneSpans(t)[i]), at |-> <<>>]]]

\* --------------------------------------------- the external collaborators
\* The labels the recognizer of each program reports, among those the program
\* tests for: main.py lines 22 and 74-78; redactor.py lines 19 and 83-86.
Labels(p) ==
    IF p = "main" THEN {"PERSON", "DATE", "GPE", "ORG"}
    ELSE {"PERSON", "DATE", "GPE", "PHONE"}

\* [a, b) starts at the first and ends at the last character of a token
TokenStart(s, a) == s[a + 1] \notin Whitespace /\ (a = 0 \/ s[a] \in Whitespace)
TokenEnd(s, b) == s[b] \notin Whitespace /\ (b = Len(s) \/ s[b + 1] \in Whitespace)
TokenSpans(s, from) ==
    { p \in (from..(Len(s) - 1)) \X ((from + 1)..Len(s)) :
        p[1] < p[2] /\ TokenStart(s, p[1]) /\ TokenEnd(s, p[2]) }

\* nlp(text).ents: typed spans of whole tokens from offset `from` on, in
\* document order and pairwise disjoint
RECURSIVE EntsFrom(_, _, _)
EntsFrom(s, from, labels) ==
    {<<>>} \cup
    UNION { { <<[start |-> p[1], end |-> p[2], label |-> l]>> \o rest :
                rest \in EntsFrom(s, p[2], labels), l \in labels } :
            p \in TokenSpans(s, from) }

Recognize(doc, p) == EntsFrom(doc, 0, Labels(p))

\* nlp(text).sents: spans of whole tokens that cover every token, in order
AllWhitespace(s, a, b) == \A i \in (a + 1)..b : s[i] \in Whitespace

RECURSIVE SentsFrom(_, _)
SentsFrom(s, from) ==
    IF AllWhitespace(s, from, Len(s)) THEN {<<>>}
    ELSE UNION { { <<[start |-> p[1], end |-> p[2]]>> \o rest : rest \in SentsFrom(s, p[2]) } :
                 p \in { q \in TokenSpans(s, from) : AllWhitespace(s, from, q[1]) } }

Segment(s) == SentsFrom(s, 0)

\* wordnet.synsets(concept) and their lemma names, for the seeds of the model
LemmaNames(concept) ==
    IF concept = <<"a">> THEN { <<"A">>, <<"a", "_", "1">> } ELSE {}

\* get_related_words(concept): lemma.name().lower().replace('_', ' ')
get_related_words(concept) ==
    { Replace(Lower(name), <<"_">>, <<" ">>) : name \in LemmaNames(concept) }

\* any(word in concept_words for word in sent.text.lower().split())
HasConceptWord(sentText, words) ==
    words # {} /\ \E word \in Split(Lower(sentText)) : word \in words

\* ------------------------------------------------------------------ state
VARIABLES
    prog,           \* which program runs: "main" (main.py) or "redactor" (redactor.py)
    flags,          \* the flags given among names, dates, phones, address
    concept,        \* args.concept: the seeds given, <<>> when the option is absent
    pc,             \* "start" before, "done" after process_file / censor_file
    document,       \* the text read from the input file; never changed afterwards
    ents,           \* doc.ents of nlp(document)
    sents,          \* doc.sents the concept loop iterates over
    sdoc,           \* the text those sentences are spans of
    afterEntities,  \* the text when the entity loop has ended
    pre,            \* the text as the concept loop found it
    text,           \* text (main.py) / redacted_text (redactor.py) at the end
    stats,          \* main.py: the audit lines process_file returns
    items,          \* redactor.py: censored_items as handed to log_statistics
    output          \* the content of the .censored file

pvars == <<prog, flags, concept, pc, document, ents, sents, sdoc, afterEntities,
           pre, text, stats, items, output>>

\* The batch loops of the two main() functions
VARIABLES
    bprog,          \* the program whose main() runs
    files,          \* what processing each globbed file meets: "ok", or where it raises
    stats_output,   \* args.stats: "stderr", "stdout" or "path" (a file path)
    prior,          \* what the sink file held when the run started
    sink,           \* the sink file: 0 for a record of an earlier run, i for file i's
    idx,            \* the 1-based index of the next file of the loop
    bpc,            \* "loop", then "exit" (main returned) or "crashed" (it raised)
    written,        \* the files whose .censored output exists
    acc,            \* main.py: the stats list main() accumulates
    stdout,         \* what was printed to stdout
    stderr,         \* what was written to stderr
    sinkFailed      \* the loop positions at which writing the sink file raised

bvars == <<bprog, files, stats_output, prior, sink, idx, bpc, written, acc,
           stdout, stderr, sinkFailed>>

vars == <<pvars, bvars>>

Flags == {"names", "dates", "phones", "address"}
Seeds == { <<>>, << <<"a">> >> }
NoItems == [NAMES |-> 0, DATES |-> 0, PHONES |-> 0, ADDRESS |-> 0, CONCEPTS |-> 0]

RECURSIVE SeqsUpTo(_)
SeqsUpTo(n) ==
    IF n = 0 THEN {<<>>}
    ELSE SeqsUpTo(n - 1) \cup
         { Append(s, c) : s \in { t \in SeqsUpTo(n - 1) : Len(t) = n - 1 }, c \in Alphabet }

\* the documents an input file may hold
Docs == SeqsUpTo(MaxLen)

\* ----------------------------------------------------- main.py: the stages
HasLabel(es, labels) == SelectSeq(es, LAMBDA e : e.label \in labels)

\* process_file, lines 72-78: the entities handed to redact_entities
entities_to_redact(es, fl) ==
    (IF "names" \in fl THEN HasLabel(es, {"PERSON"}) ELSE <<>>) \o
    (IF "dates" \in fl THEN HasLabel(es, {"DATE"}) ELSE <<>>) \o
    (IF "address" \in fl THEN HasLabel(es, {"GPE", "ORG"}) ELSE <<>>)

\* the loop "for ent in entities: if ent.label_ in labels:
\*     redacted_text = redacted_text.replace(ent.text, '█' * len(ent.text))"
RECURSIVE ReplaceEntities(_, _, _, _)
ReplaceEntities(doc, redacted, es, labels) ==
    IF es = <<>> THEN redacted
    ELSE LET ent == Head(es)
             t == SpanText(doc, ent)
         IN  ReplaceEntities(doc,
                 IF ent.label \in labels THEN Replace(redacted, t, Blocks(Len(t)))
                 ELSE redacted,
                 Tail(es), labels)

\* redact_entities(doc, entities) -> (redacted_text, stats)
redact_entities(doc, es) ==
    LET kept == HasLabel(es, {"PERSON", "DATE", "GPE", "ORG"})
    IN  [text  |-> ReplaceEntities(doc, doc, es, {"PERSON", "DATE", "GPE", "ORG"}),
         stats |-> [i \in 1..Len(kept) |->
                      [cat |-> kept[i].label, text |-> SpanText(doc, kept[i]),
                       at |-> <<kept[i].start, kept[i].end>>]]]

\* the loop "for sent in doc.sents: if any(word in concepts ...):
\*     redacted_text = redacted_text.replace(sent.text, '█' * len(sent.text))"
RECURSIVE ReplaceSentences(_, _, _, _)
ReplaceSentences(doc, redacted, ss, words) ==
    IF ss = <<>> THEN redacted
    ELSE LET t == SpanText(doc, Head(ss))
         IN  ReplaceSentences(doc,
                 IF HasConceptWord(t, words) THEN Replace(redacted, t, Blocks(Len(t)))
                 ELSE redacted,
                 Tail(ss), words)

ConceptSentences(doc, ss, words) ==
    SelectSeq(ss, LAMBDA sp : HasConceptWord(SpanText(doc, sp), words))

\* redact_concept_sentences(doc, concepts) -> (redacted_text, stats); a
\* sentence text has no outer whitespace, so sent.text.strip() is sent.text
redact_concept_sentences(doc, ss, words) ==
    LET hit == ConceptSentences(doc, ss, words)
    IN  [text  |-> ReplaceSentences(doc, doc, ss, words),
         stats |-> [i \in 1..Len(hit) |->
                      [cat |-> "CONCEPT", text |-> SpanText(doc, hit[i]), at |-> <<>>]]]

\* the union of get_related_words over the seeds
ConceptWords(seeds) == UNION { get_related_words(seeds[i]) : i \in 1..Len(seeds) }

\* process_file, lines 70-81: the entity stage, as (text, stats)
EntityStage(d, es, fl) ==
    IF fl \cap {"names", "dates", "address"} # {}
    THEN redact_entities(d, entities_to_redact(es, fl))
    ELSE [text |-> d, stats |-> <<>>]

\* process_file, lines 83-86: the phone stage, as (text, stats)
PhoneStage(t, fl) ==
    IF "phones" \in fl THEN redact_phone_numbers(t)
    ELSE [text |-> t, stats |-> <<>>]

\* process_file(file, output_dir, redact_flags, concepts), lines 62-103
process_file ==
    /\ prog = "main" /\ pc = "start"
    /\ \E d \in Docs : \E es \in Recognize(d, prog) :
       \E r1 \in {EntityStage(d, es, flags)} :
       \E r2 \in {PhoneStage(r1.text, flags)} :
       \E words \in {ConceptWords(concept)} :
         /\ document' = d
         /\ ents' = es
         /\ afterEntities' = r1.text
         /\ pre' = r2.text
         /\ sdoc' = r2.text
         /\ IF concept # <<>>
            THEN \E ss \in Segment(r2.text) :
                 \E r3 \in {redact_concept_sentences(r2.text, ss, words)} :
                   /\ sents' = ss
                   /\ text' = r3.text
                   /\ output' = r3.text
                   /\ stats' = r1.stats \o r2.stats \o r3.stats
            ELSE /\ sents' = <<>>
                 /\ text' = r2.text
                 /\ output' = r2.text
                 /\ stats' = r1.stats \o r2.stats
    /\ pc' = "done"
    /\ UNCHANGED <<prog, flags, concept, items>>
    /\ UNCHANGED bvars

\* --------------------------------------------------- redactor.py: the steps
\* main, lines 108-116
entity_types(fl) ==
    (IF "names" \in fl THEN {"PERSON"} ELSE {}) \cup
    (IF "dates" \in fl THEN {"DATE"} ELSE {}) \cup
    (IF "phones" \in fl THEN {"PHONE"} ELSE {}) \cup
    (IF "address" \in fl THEN {"GPE"} ELSE {})

Count(es, label) == Len(HasLabel(es, {label}))

\* censor_file, lines 82-88
censored_items(es, types, doc, ss, words) ==
    [NAMES    |-> IF "NAMES" \in types THEN Count(es, "PERSON") ELSE 0,
     DATES    |-> IF "DATES" \in types THEN Count(es, "DATE") ELSE 0,
     PHONES   |-> IF "PHONES" \in types THEN Count(es, "PHONE") ELSE 0,
     ADDRESS  |-> IF "ADDRESS" \in types THEN Count(es, "GPE") ELSE 0,
     CONCEPTS |-> Len(ConceptSentences(doc, ss, words))]

\* censor_text(doc, entity_types, concept_words), lines 36-50
censor_text(doc, es, ss, types, words) ==
    LET t1 == ReplaceEntities(doc, doc, es, types)
    IN  [afterEntities |-> t1, text |-> ReplaceSentences(doc, t1, ss, words)]

\* censor_file(filepath, entity_types, concept_words, output_dir, stats_output),
\* lines 67-89
censor_file ==
    /\ prog = "redactor" /\ pc = "start"
    /\ \E types \in {entity_types(flags)} : \E words \in {ConceptWords(concept)} :
       \E d \in Docs : \E es \in Recognize(d, prog) : \E ss \in Segment(d) :
       \E r \in {censor_text(d, es, ss, types, words)} :
         /\ document' = d
         /\ ents' = es
         /\ sents' = ss
         /\ sdoc' = d
         /\ afterEntities' = r.afterEntities
         /\ pre' = r.afterEntities
         /\ text' = r.text
         /\ output' = r.text
         /\ items' = censored_items(es, types, d, ss, words)
    /\ pc' = "done"
    /\ UNCHANGED <<prog, flags, concept, stats>>
    /\ UNCHANGED bvars

\* no batch runs: the state of the batch variables in Spec
BatchIdle ==
    /\ bprog = "none" /\ files = <<>> /\ stats_output = "stderr"
    /\ prior = <<>> /\ sink = <<>> /\ idx = 1 /\ bpc = "exit"
    /\ written = {} /\ acc = <<>> /\ stdout = <<>> /\ stderr = <<>>
    /\ sinkFailed = {}

\* no file is being processed: the state of the file variables in SpecBatch
FileIdle ==
    /\ prog = "none" /\ flags = {} /\ concept = <<>> /\ pc = "done"
    /\ document = <<>> /\ ents = <<>> /\ sents = <<>> /\ sdoc = <<>>
    /\ afterEntities = <<>> /\ pre = <<>> /\ text = <<>> /\ output = <<>>
    /\ stats = <<>>
    /\ items = NoItems

Init ==
    /\ prog \in {"main", "redactor"}
    /\ flags \in SUBSET Flags
    /\ concept \in Seeds
    /\ pc = "start"
    /\ document = <<>> /\ ents = <<>> /\ sents = <<>> /\ sdoc = <<>>
    /\ afterEntities = <<>> /\ pre = <<>> /\ text = <<>> /\ output = <<>>
    /\ stats = <<>>
    /\ items = NoItems
    /\ BatchIdle

Next ==
    \/ process_file
    \/ censor_file

Spec == Init /\ [][Next]_vars

\* ------------------------------------------------------- the batch loops
\* What processing a file meets: it succeeds, or it raises at open(file)
\* (main.py:63, redactor.py:69), in nlp(text) (main.py:67, redactor.py:73),
\* or at open(output) (main.py:100, redactor.py:78).
Outcomes == {"ok", "unreadable", "detector", "unwritable"}

RECURSIVE FileLists(_)
FileLists(n) ==
    IF n = 0 THEN {<<>>}
    ELSE FileLists(n - 1) \cup
         { Append(fs, o) : fs \in { t \in FileLists(n - 1) : Len(t) = n - 1 }, o \in Outcomes }

Line(kind, i) == [kind |-> kind, file |-> i]
Lines(kind, is) == [k \in 1..Len(is) |-> Line(kind, is[k])]

\* redactor.py main, lines 125-130, one iteration: censor_file in try/except,
\* with log_statistics (lines 52-65) as its last call
RedactorFile ==
    /\ bprog = "redactor" /\ bpc = "loop" /\ idx <= Len(files)
    /\ idx' = idx + 1
    /\ \/ /\ files[idx] # "ok"
          /\ stdout' = Append(stdout, Line("error", idx))
          /\ UNCHANGED <<written, sink, stderr, sinkFailed>>
       \/ /\ files[idx] = "ok"
          /\ written' = written \cup {idx}
          /\ \/ /\ stats_output = "stderr"
                /\ stderr' = Append(stderr, Line("stats", idx))
                /\ UNCHANGED <<sink, stdout, sinkFailed>>
             \/ /\ stats_output = "stdout"
                /\ stdout' = Append(stdout, Line("stats", idx))
                /\ UNCHANGED <<sink, stderr, sinkFailed>>
             \/ /\ stats_output = "path"
                /\ sink' = Append(sink, idx)
                /\ UNCHANGED <<stdout, stderr, sinkFailed>>
             \/ /\ stats_output = "path"
                /\ sinkFailed' = sinkFailed \cup {idx}
                /\ stdout' = Append(stdout, Line("error", idx))
                /\ UNCHANGED <<sink, stderr>>
    /\ UNCHANGED <<bprog, files, stats_output, prior, bpc, acc>>
    /\ UNCHANGED pvars

\* redactor.py main: the loop has ended
RedactorReturn ==
    /\ bprog = "redactor" /\ bpc = "loop" /\ idx > Len(files)
    /\ bpc' = "exit"
    /\ UNCHANGED <<bprog, files, stats_output, prior, sink, idx, written, acc,
                   stdout, stderr, sinkFailed>>
    /\ UNCHANGED pvars

\* main.py main, lines 136-140, one iteration: no try/except around process_file
MainFile ==
    /\ bprog = "main" /\ bpc = "loop" /\ idx <= Len(files)
    /\ \/ /\ files[idx] = "ok"
          /\ written' = written \cup {idx}
          /\ acc' = Append(acc, idx)
          /\ idx' = idx + 1
          /\ UNCHANGED bpc
       \/ /\ files[idx] # "ok"
          /\ bpc' = "crashed"
          /\ UNCHANGED <<written, acc, idx>>
    /\ UNCHANGED <<bprog, files, stats_output, prior, sink, stdout, stderr, sinkFailed>>
    /\ UNCHANGED pvars

\* main.py main, lines 142-150: the statistics of the whole batch, written
\* once; a sink file is opened with mode 'w'
MainWriteStats ==
    /\ bprog = "main" /\ bpc = "loop" /\ idx > Len(files)
    /\ \/ /\ stats_output = "stderr"
          /\ stderr' = stderr \o Lines("stats", acc)
          /\ bpc' = "exit"
          /\ UNCHANGED <<sink, stdout, sinkFailed>>
       \/ /\ stats_output = "stdout"
          /\ stdout' = stdout \o Lines("stats", acc)
          /\ bpc' = "exit"
          /\ UNCHANGED <<sink, stderr, sinkFailed>>
       \/ /\ stats_output = "path"
          /\ sink' = acc
          /\ bpc' = "exit"
          /\ UNCHANGED <<stdout, stderr, sinkFailed>>
       \/ /\ stats_output = "path"
          /\ sinkFailed' = sinkFailed \cup {idx}
          /\ bpc' = "crashed"
          /\ UNCHANGED <<sink, stdout, stderr>>
    /\ UNCHANGED <<bprog, files, stats_output, prior, idx, written, acc>>
    /\ UNCHANGED pvars

InitBatch ==
    /\ bprog \in {"main", "redactor"}
    /\ files \in FileLists(MaxFiles)
    /\ stats_output \in {"stderr", "stdout", "path"}
    /\ prior \in {<<>>, <<0>>}
    /\ sink = prior
    /\ idx = 1
    /\ bpc = "loop"
    /\ written = {} /\ acc = <<>> /\ stdout = <<>> /\ stderr = <<>>
    /\ sinkFailed = {}
    /\ FileIdle

NextBatch ==
    \/ RedactorFile
    \/ RedactorReturn
    \/ MainFile
    \/ MainWriteStats

SpecBatch == InitBatch /\ [][NextBatch]_vars

\* ------------------------------------------------------------- properties
Censored(t, sp) == \A i \in (sp.start + 1)..sp.end : t[i] = CensorChar
Overlap(a, b) == a.start < b.end /\ b.start < a.end
Range(f) == { f[i] : i \in DOMAIN f }
Plain(e) == [start |-> e.start, end |-> e.end]

\* the entities the entity loop of the program censors
Requested ==
    IF prog = "main"
    THEN (IF flags \cap {"names", "dates", "address"} # {}
          THEN Range(entities_to_redact(ents, flags)) ELSE {})
    ELSE { e \in Range(ents) : e.label \in entity_types(flags) }

\* the sentences the concept loop censors
ConceptHits == Range(ConceptSentences(sdoc, sents, ConceptWords(concept)))

\* every span some detector reported: the requested entities, the phone
\* matches of the original text and of the text the phone stage scanned,
\* and the concept sentences
DetectedSpans ==
    { Plain(e) : e \in Requested }
    \cup (IF prog = "main" /\ "phones" \in flags
          THEN Range(PhoneSpans(document)) \cup Range(PhoneSpans(afterEntities))
          ELSE {})
    \cup ConceptHits

Covered(i) == \E sp \in DetectedSpans : sp.start < i /\ i <= sp.end

\* C1: the censored text has exactly as many characters as the input
\* document, after the entity stage, after the phone stage, after the concept
\* stage and in the file written, in both programs, whatever the flags and
\* the concept words.
C1_LengthPreserved ==
    pc = "done" =>
        /\ Len(afterEntities) = Len(document)
        /\ Len(pre) = Len(document)
        /\ Len(text) = Len(document)
        /\ Len(output) = Len(document)

\* C1 witness: a document of the greatest length in which the entity loop and
\* the concept loop both replaced something
C1_Witness ==
    /\ pc = "done" /\ prog = "main"
    /\ Len(document) = MaxLen
    /\ afterEntities # document
    /\ text # pre

\* C2: every position of the output that no detected span covers holds the
\* input character of that position.
C2_Frame ==
    pc = "done" =>
        \A i \in 1..Len(document) : ~Covered(i) => output[i] = document[i]

\* C3: once the entity loop has ended, every character of every requested
\* entity span is the censor character.
C3_Coverage ==
    pc = "done" => \A e \in Requested : Censored(afterEntities, e)

\* C4: every sentence with a token in the concept set is censor characters
\* over its whole length in the output, and the concept loop leaves every
\* other sentence as it found it.
C4_ConceptRedaction ==
    pc = "done" =>
        \A sp \in Range(sents) :
            IF sp \in ConceptHits THEN Censored(output, sp)
            ELSE \A i \in (sp.start + 1)..sp.end : output[i] = pre[i]

\* the requested entities of a label that are censor characters in the output
CensoredOf(labels) == { e \in Requested : e.label \in labels /\ Censored(output, e) }
LinesOf(cat) == Len(SelectSeq(stats, LAMBDA l : l.cat = cat))

\* C5: for each category the count reported (redactor.py) or the number of
\* audit lines (main.py) is the number of spans of the category that are
\* censor characters in the written output.
C5_StatsAgree ==
    pc = "done" =>
        IF prog = "redactor"
        THEN /\ items.NAMES = Cardinality(CensoredOf({"PERSON"}))
             /\ items.DATES = Cardinality(CensoredOf({"DATE"}))
             /\ items.PHONES = Cardinality(CensoredOf({"PHONE"}))
             /\ items.ADDRESS = Cardinality(CensoredOf({"GPE"}))
             /\ items.CONCEPTS = Cardinality({ sp \in ConceptHits : Censored(output, sp) })
        ELSE /\ \A l \in {"PERSON", "DATE", "GPE", "ORG"} :
                    LinesOf(l) = Cardinality(CensoredOf({l}))
             /\ LinesOf("CONCEPT") = Cardinality({ sp \in ConceptHits : Censored(output, sp) })

\* C6: when a requested entity and a phone match of the document overlap,
\* both ranges are censored and the statistics hold exactly one line for the
\* entity and exactly one for the phone match.
C6_OverlapCollapse ==
    (pc = "done" /\ prog = "main" /\ "phones" \in flags) =>
        \A e \in Requested : \A p \in Range(PhoneSpans(document)) :
            Overlap(e, p) =>
                /\ Censored(output, e) /\ Censored(output, p)
                /\ Len(SelectSeq(stats, LAMBDA l :
                        l.cat = e.label /\ l.at = <<e.start, e.end>>)) = 1
                /\ Len(SelectSeq(stats, LAMBDA l :
                        l.cat = "PHONE" /\ l.text = SpanText(document, p))) = 1

\* C10: with the phones flag, the phone matches main.py censors and reports
\* are those of the original document, whether or not the entity stage ran.
C10_PhoneStageIndependent ==
    (pc = "done" /\ prog = "main" /\ "phones" \in flags) =>
        /\ SelectSeq(stats, LAMBDA l : l.cat = "PHONE")
             = redact_phone_numbers(document).stats
        /\ \A p \in Range(PhoneSpans(document)) : Censored(output, p)

\* the files the loop has passed whose statistics were to be written
Passed == SelectSeq([i \in 1..(idx - 1) |-> i],
                    LAMBDA i : /\ i <= Len(files)
                               /\ files[i] = "ok"
                               /\ sinkFailed = {})
Ended == bpc \in {"exit", "crashed"}

\* C7: when the batch has ended, every file whose own processing does not
\* raise has its .censored output, whatever failed before it.
C7_FailureIsolated ==
    Ended => \A i \in 1..Len(files) : files[i] = "ok" => i \in written

\* C8: once a write to the sink has failed, the batch has ended with the
\* failure and no later file was processed.
C8_SinkFailureFatal ==
    sinkFailed # {} =>
        /\ bpc = "crashed"
        /\ \A i \in written : \E k \in sinkFailed : i <= k

\* C9: when the batch has ended, a sink file holds what it held before,
\* followed by one record for each successfully processed file, in order.
C9_StatsAppended ==
    (Ended /\ stats_output = "path" /\ sinkFailed = {}) => sink = prior \o Passed

====
